---- MODULE Spec2Model ----
(***************************************************************************)
(* Self-play training control loop of alpha_zero_general/Coach.py:         *)
(* the Coach constructor and its resume logic, Coach.learn (self-play,     *)
(* retention window, retraining, arena, accept/reject, checkpoints) and    *)
(* executeEpisode (one self-play episode and its back-labelling).          *)
(***************************************************************************)
EXTENDS Integers, Sequences, FiniteSets, TLC

(***************************************************************************)
(* Bounds of the model.                                                    *)
(***************************************************************************)
\* number of times the training process is started (fresh or resumed)
MaxRuns == 2
\* largest value of args["save_examples_from_last_n_iterations"] tried
MaxWindow == 2
\* args["training_iterations"] of every run
MaxIterations == 2
\* args["model_arena_iterations"] of every run
ArenaGames == 5
\* longest episode explored by executeEpisode
MaxMoves == 4
\* largest number of symmetry forms getSymmetries returns for one position
MaxSym == 2
\* integer that stands for the game value 1.0; a draw is worth 1 unit
ValueScale == 2
\* args["self_play_iterations"]: the episodes of one iteration
MaxEpisodes == 3
\* largest value of args["self_player_workers"] tried
MaxWorkers == 2
\* largest number of examples one episode returns
MaxResult == 2
\* largest value of args["max_training_examples"] tried
MaxCap == 4
\* self.args.num_actors of the trainer
NumActors == 2
\* how many items the actors put on the result queue in all
MaxPuts == 4
\* self.width of MathGame (16 in MathGame.__init__), scaled down
Width == 3

(***************************************************************************)
(* Program constants.                                                      *)
(***************************************************************************)
\* args.get("model_win_loss_ratio", 0.6), as the fraction RatioNum / RatioDen
RatioNum == 3
RatioDen == 5

VARIABLES
    \* ---- the file system under self.checkpoint (survives the process) ----
    disk,       \* function: file name -> content; DOMAIN disk = existing files
    \* ---- the Coach process ----
    pc,         \* position of the process in __init__ / learn
    run,        \* how many times the process has been started
    window,     \* self.save_examples_from_last_n_iterations
    nnet,       \* parameters held by self.nnet
    pnet,       \* parameters held by self.pnet
    training_examples_history,  \* self.training_examples_history
    skip_first_self_play,       \* self.skip_first_self_play
    answer,     \* r of load_training_examples: the operator's reply
    i,          \* loop variable of learn
    trainExamples,  \* the flattened examples handed to nnet.train
    pwins, nwins, draws,        \* the arena's tallies
    \* ---- history variables (not read by the program) ----
    loaded,     \* the history as it stood when learn() was entered
    pre_train,  \* snapshot taken right before nnet.train of this iteration
    decision,   \* outcome of the last decision step of this run
    \* ---- one call of executeEpisode ----
    ep_pc, player, board, current_player, move_count, temp,
    episode_examples, r, returned, sym_count, temperature_threshold,
    last_mover, \* history variable: the player who made the latest move
    \* ---- the thread pool of the self-play phase of learn ----
    workers,    \* self.self_player_workers
    episodes,   \* state of every submitted executeEpisode call
    estimator,  \* the field of the Coach whose estimator the episodes query
    seen,       \* history variable: the parameters each episode has queried
    collected,  \* eps: how many results the loop over executor.map has taken
    args,       \* the starting player in the packed arguments of every episode
    training_examples,  \* the deque the results are added to
    \* ---- values handed to the Coach and its episodes ----
    best_model_name,        \* args["best_model_name"]
    max_training_examples,  \* args["max_training_examples"]
    result_len, \* how many examples the executeEpisode call of each episode returns
    \* ---- MathyTrainer.run ----
    tr_pc,      \* position of the main thread in run
    res_queue,  \* the result queue the actors put their frames on
    experience, \* the frames handed to self.experience.add_frame, in order
    taken,      \* history variable: what res_queue.get() has returned, in order
    actor_quit, \* MathyActor.request_quit
    learner_quit,   \* MathyLearner.request_quit
    model_saved,    \* learner.model.save() was called
    joined,     \* the workers join() has been called on
    \* ---- MathGame.encode_text / decode_board ----
    bd_pc, text, encoded, decoded

coach_vars == <<disk, pc, run, window, nnet, pnet, training_examples_history,
                skip_first_self_play, answer, i, trainExamples, pwins, nwins,
                draws, loaded, pre_train, decision>>

episode_vars == <<ep_pc, player, board, current_player, move_count, temp,
                  episode_examples, r, returned, sym_count,
                  temperature_threshold, last_mover>>

pool_vars == <<workers, episodes, estimator, seen, collected, args,
               training_examples>>

input_vars == <<best_model_name, max_training_examples, result_len>>

trainer_vars == <<tr_pc, res_queue, experience, taken, actor_quit,
                  learner_quit, model_saved, joined>>

board_vars == <<bd_pc, text, encoded, decoded>>

\* what MathyTrainer.run leaves alone, and what MathGame leaves alone
not_trainer_vars == <<coach_vars, episode_vars, pool_vars, input_vars,
                      board_vars>>

not_board_vars == <<coach_vars, episode_vars, pool_vars, input_vars,
                    trainer_vars>>

\* what neither the Coach, an episode nor the thread pool writes
rest_vars == <<input_vars, trainer_vars, board_vars>>

vars == <<coach_vars, episode_vars, pool_vars, rest_vars>>

(***************************************************************************)
(* File names.                                                             *)
(***************************************************************************)
get_checkpoint_filename(iteration) == <<"checkpoint", iteration, "pth.tar">>

get_best_model_filename == <<best_model_name, 0, "pth.tar">>

temp_file_path == <<"temp", 0, "pth.tar">>

\* "{}.examples".format(filename)
examples_file(filename) == <<filename[1], filename[2], "pth.tar.examples">>

\* os.path.exists / os.path.isfile
exists(d, filename) == filename \in DOMAIN d

\* open(filename, "wb+") ... dump(content), and NeuralNet.save_checkpoint
write(d, filename, content) ==
    [f \in (DOMAIN d) \cup {filename} |-> IF f = filename THEN content ELSE d[f]]

\* NeuralNet.save_checkpoint(filename): the parameters go to the file
save_checkpoint(d, filename, params) == write(d, filename, params)

\* NeuralNet.load_checkpoint(filename): the parameters stored in the file
load_checkpoint(d, filename) == d[filename]

can_load_model(d, model_name) == exists(d, model_name)

(***************************************************************************)
(* Values of the Coach.                                                    *)
(***************************************************************************)
\* the parameters of a freshly constructed estimator
FreshParams(rn) == [run |-> rn, iter |-> 0]

\* the parameters nnet.train leaves in self.nnet in iteration k of run rn
TrainedParams(rn, k) == [run |-> rn, iter |-> k]

\* the reply the operator types at the prompt of load_training_examples
Answers == {"y", "Y", "n", ""}

\* the examples of one iteration's self-play (training_examples of learn)
IterationBatch(rn, iteration) == [run |-> rn, iter |-> iteration]

\* the snapshot of the files a rejected iteration must leave alone
NoSnapshot == [nnet |-> FreshParams(0), disk |-> <<>>]

(***************************************************************************)
(* Coach.__init__ (lines 66-96) with load_training_examples up to the      *)
(* prompt (lines 239-253).                                                 *)
(***************************************************************************)
Construct ==
    /\ pc = "off"
    /\ run < MaxRuns
    /\ run' = run + 1
    /\ \E n \in 1..MaxWindow : window' = n
    /\ pnet' = FreshParams(run + 1)
    /\ answer' = "none"
    /\ IF can_load_model(disk, get_best_model_filename)
       THEN /\ nnet' = load_checkpoint(disk, get_best_model_filename)
            /\ IF ~exists(disk, examples_file(get_best_model_filename))
               THEN /\ training_examples_history' = <<>>
                    /\ skip_first_self_play' = FALSE
                    /\ pc' = "prompt"
               ELSE /\ training_examples_history' =
                           disk[examples_file(get_best_model_filename)]
                    /\ skip_first_self_play' = TRUE
                    /\ pc' = "constructed"
       ELSE /\ nnet' = FreshParams(run + 1)
            /\ training_examples_history' = <<>>
            /\ skip_first_self_play' = FALSE
            /\ pc' = "constructed"
    /\ UNCHANGED <<disk, i, trainExamples, pwins, nwins, draws,
                   loaded, pre_train, decision>>

\* a variant of the test that takes the reply in either case
proceeds_any_case(reply) == reply \in {"y", "Y"}

\* input(...) and the test r != "y" of load_training_examples (lines 243-247)
proceeds(reply) == reply = "y"

Prompt ==
    /\ pc = "prompt"
    /\ \E reply \in Answers :
          /\ answer' = reply
          /\ pc' = IF proceeds(reply) THEN "constructed" ELSE "exited"
    /\ UNCHANGED <<disk, run, window, nnet, pnet, training_examples_history,
                   skip_first_self_play, i, trainExamples, pwins, nwins,
                   draws, loaded, pre_train, decision>>

(***************************************************************************)
(* Coach.learn (lines 98-207).                                             *)
(***************************************************************************)
\* entry of learn and the first pass of "for i in range(1, ...)"
LearnBegin ==
    /\ pc = "constructed"
    /\ i' = 1
    /\ loaded' = training_examples_history
    /\ pc' = "selfplay"
    /\ UNCHANGED <<disk, run, window, nnet, pnet, training_examples_history,
                   skip_first_self_play, answer, trainExamples, pwins, nwins,
                   draws, pre_train, decision>>

\* lines 117-156: the episodes of the iteration and the append of their batch
SelfPlay ==
    /\ pc = "selfplay"
    /\ training_examples_history' =
          Append(training_examples_history, IterationBatch(run, i))
    /\ pre_train' = [nnet |-> nnet, disk |-> disk]
    /\ pc' = "retain"
    /\ UNCHANGED <<disk, run, window, nnet, pnet, skip_first_self_play,
                   answer, i, trainExamples, pwins, nwins, draws,
                   loaded, decision>>

\* a variant of the eviction that drops the newest batch instead of the oldest
evict_newest(history, n) ==
    IF Len(history) > n THEN SubSeq(history, 1, Len(history) - 1) ELSE history

\* a variant that takes a window below 1 for a window of 1
evict_clamped(history, n) ==
    IF Len(history) > (IF n < 1 THEN 1 ELSE n) THEN Tail(history) ELSE history

\* lines 158-167: the eviction
evict(history, n) == IF Len(history) > n THEN Tail(history) ELSE history

Retain ==
    /\ pc = "retain"
    /\ training_examples_history' = evict(training_examples_history, window)
    /\ pc' = "save_examples"
    /\ UNCHANGED <<disk, run, window, nnet, pnet, skip_first_self_play,
                   answer, i, trainExamples, pwins, nwins, draws,
                   loaded, pre_train, decision>>

\* a variant of save_training_examples that dumps nothing
save_training_examples_unwritten(d, iteration, history) == d

\* line 170 and save_training_examples (lines 219-227)
save_training_examples(d, iteration, history) ==
    write(d, examples_file(get_checkpoint_filename(iteration)), history)

SaveExamples ==
    /\ pc = "save_examples"
    /\ disk' = save_training_examples(disk, i - 1, training_examples_history)
    /\ pc' = "flatten"
    /\ UNCHANGED <<run, window, nnet, pnet, training_examples_history,
                   skip_first_self_play, answer, i, trainExamples, pwins,
                   nwins, draws, loaded, pre_train, decision>>

\* lines 173-176: the batches whose examples are handed to train, shuffled
flatten(history) == {history[j] : j \in 1..Len(history)}

Flatten ==
    /\ pc = "flatten"
    /\ trainExamples' = flatten(training_examples_history)
    /\ pc' = "backup"
    /\ UNCHANGED <<disk, run, window, nnet, pnet, training_examples_history,
                   skip_first_self_play, answer, i, pwins, nwins, draws,
                   loaded, pre_train, decision>>

\* a variant of the backup that does not load the copy into pnet
Backup_stale_pnet ==
    /\ pc = "backup"
    /\ disk' = save_checkpoint(disk, temp_file_path, nnet)
    /\ pc' = "train"
    /\ UNCHANGED <<run, window, nnet, pnet, training_examples_history,
                   skip_first_self_play, answer, i, trainExamples, pwins,
                   nwins, draws, loaded, pre_train, decision>>

\* lines 179-181: the copy of the incumbent kept in temp.pth.tar and in pnet
Backup ==
    /\ pc = "backup"
    /\ disk' = save_checkpoint(disk, temp_file_path, nnet)
    /\ pnet' = load_checkpoint(disk', temp_file_path)
    /\ pc' = "train"
    /\ UNCHANGED <<run, window, nnet, training_examples_history,
                   skip_first_self_play, answer, i, trainExamples, pwins,
                   nwins, draws, loaded, pre_train, decision>>

\* line 183: nnet.train(trainExamples) leaves new parameters in self.nnet
Train ==
    /\ pc = "train"
    /\ pre_train' = [pre_train EXCEPT !.nnet = nnet]
    /\ nnet' = TrainedParams(run, i)
    /\ pc' = "evaluate"
    /\ UNCHANGED <<disk, run, window, pnet, training_examples_history,
                   skip_first_self_play, answer, i, trainExamples, pwins,
                   nwins, draws, loaded, decision>>

\* lines 187-192: arena.playGames(model_arena_iterations)
Evaluate ==
    /\ pc = "evaluate"
    /\ \E p \in 0..ArenaGames : \E n \in 0..(ArenaGames - p) :
          /\ pwins' = p
          /\ nwins' = n
          /\ draws' = ArenaGames - p - n
    /\ pc' = "decide"
    /\ UNCHANGED <<disk, run, window, nnet, pnet, training_examples_history,
                   skip_first_self_play, answer, i, trainExamples,
                   loaded, pre_train, decision>>

\* a variant of the test that also rejects a challenger exactly at the ratio
rejects_at_ratio(p, n) == p + n > 0 /\ n * RatioDen <= RatioNum * (p + n)

\* the condition of lines 195-198, with model_win_loss_ratio = RatioNum/RatioDen;
\* float(nwins) / (pwins + nwins) is a correctly rounded quotient, so for the
\* small tallies of an arena it compares with 0.6 as the exact fractions do
rejects(p, n) == p + n > 0 /\ n * RatioDen < RatioNum * (p + n)

\* a variant of the loop that makes one pass fewer
NextIteration_one_short ==
    /\ IF i + 1 < MaxIterations
       THEN i' = i + 1 /\ pc' = "selfplay"
       ELSE i' = i /\ pc' = "done"
    /\ pwins' = 0 /\ nwins' = 0 /\ draws' = 0

\* the step of "for i in range(1, self.training_iterations + 1)"; the
\* tallies of the iteration that ends are not read again and are zeroed
NextIteration ==
    /\ IF i < MaxIterations
       THEN i' = i + 1 /\ pc' = "selfplay"
       ELSE i' = i /\ pc' = "done"
    /\ pwins' = 0 /\ nwins' = 0 /\ draws' = 0

\* a variant of the rejection that leaves the retrained parameters in place
Reject_keeps_challenger ==
    /\ pc = "decide"
    /\ rejects(pwins, nwins)
    /\ decision' = "reject"
    /\ NextIteration
    /\ UNCHANGED <<disk, run, window, nnet, pnet, training_examples_history,
                   skip_first_self_play, answer, trainExamples,
                   loaded, pre_train>>

\* lines 199-200
Reject ==
    /\ pc = "decide"
    /\ rejects(pwins, nwins)
    /\ nnet' = load_checkpoint(disk, temp_file_path)
    /\ decision' = "reject"
    /\ NextIteration
    /\ UNCHANGED <<disk, run, window, pnet, training_examples_history,
                   skip_first_self_play, answer, trainExamples,
                   loaded, pre_train>>

\* lines 202-206
Accept ==
    /\ pc = "decide"
    /\ ~rejects(pwins, nwins)
    /\ disk' = save_checkpoint(disk, get_checkpoint_filename(i), nnet)
    /\ decision' = "accept"
    /\ pc' = "save_best_model"
    /\ UNCHANGED <<run, window, nnet, pnet, training_examples_history,
                   skip_first_self_play, answer, i, trainExamples, pwins,
                   nwins, draws, loaded, pre_train>>

\* save_current_model("best"), lines 229-234
SaveBestModel ==
    /\ pc = "save_best_model"
    /\ disk' = save_checkpoint(disk, <<"best", 0, "pth.tar">>, nnet)
    /\ pc' = "save_best_examples"
    /\ UNCHANGED <<run, window, nnet, pnet, training_examples_history,
                   skip_first_self_play, answer, i, trainExamples, pwins,
                   nwins, draws, loaded, pre_train, decision>>

\* a variant of the second half of save_current_model that writes no history
SaveBestExamples_skipped ==
    /\ pc = "save_best_examples"
    /\ NextIteration
    /\ UNCHANGED <<disk, run, window, nnet, pnet, training_examples_history,
                   skip_first_self_play, answer, trainExamples,
                   loaded, pre_train, decision>>

\* save_current_model("best"), lines 235-237
SaveBestExamples ==
    /\ pc = "save_best_examples"
    /\ disk' = write(disk, examples_file(<<"best", 0, "pth.tar">>),
                   training_examples_history)
    /\ NextIteration
    /\ UNCHANGED <<run, window, nnet, pnet, training_examples_history,
                   skip_first_self_play, answer, trainExamples,
                   loaded, pre_train, decision>>

\* the process ends (learn returned, sys.exit, or it was killed); the files stay
ProcessEnds ==
    /\ pc # "off"
    /\ pc' = "off"
    /\ window' = 1
    /\ nnet' = NoSnapshot.nnet
    /\ pnet' = NoSnapshot.nnet
    /\ training_examples_history' = <<>>
    /\ skip_first_self_play' = FALSE
    /\ answer' = "none"
    /\ i' = 0
    /\ trainExamples' = {}
    /\ pwins' = 0 /\ nwins' = 0 /\ draws' = 0
    /\ loaded' = <<>>
    /\ pre_train' = NoSnapshot
    /\ decision' = "none"
    /\ UNCHANGED <<disk, run>>

CoachInit ==
    /\ disk = <<>>
    /\ pc = "off"
    /\ run = 0
    /\ window = 1
    /\ nnet = NoSnapshot.nnet
    /\ pnet = NoSnapshot.nnet
    /\ training_examples_history = <<>>
    /\ skip_first_self_play = FALSE
    /\ answer = "none"
    /\ i = 0
    /\ trainExamples = {}
    /\ pwins = 0 /\ nwins = 0 /\ draws = 0
    /\ loaded = <<>>
    /\ pre_train = NoSnapshot
    /\ decision = "none"

(***************************************************************************)
(* The game contract, as MathGame.py documents it.  A board records how    *)
(* many moves were played and how the game stands.  The four actions are:  *)
(* 0 play on, 1 the mover wins, 2 the mover loses, 3 the game is drawn.    *)
(* MathGame's own bodies are stubs of this contract: getGameEnded is       *)
(* always 0 (the board stays open) and getSymmetries is always empty.      *)
(***************************************************************************)
Players == {1, -1}

\* MathGame.getActionSize: len(self.available_actions), four rules
Actions == 0..3

getInitBoard == [moves |-> 0, status |-> "open", winner |-> 0]

\* returns (nextBoard, nextPlayer); nextPlayer is -player
getNextState(b, p, action) ==
    << [moves  |-> b.moves + 1,
        status |-> CASE action = 0 -> "open"
                     [] action = 3 -> "draw"
                     [] OTHER      -> "won",
        winner |-> CASE action = 1 -> p
                     [] action = 2 -> -p
                     [] OTHER      -> 0],
       -p >>

\* a variant that never reports the end of the game
getGameEnded_never_over(b, p) == 0

\* 0 if the game has not ended, 1 if player won, -1 if player lost, a small
\* non-zero value for a draw (in units of 1/ValueScale)
getGameEnded(b, p) ==
    CASE b.status = "open" -> 0
      [] b.status = "draw" -> 1
      [] OTHER -> IF b.winner = p THEN ValueScale ELSE -ValueScale

\* board.copy(): the canonical form of MathGame does not depend on the player
getCanonicalForm(b, p) == b

\* the list of symmetrical forms of (board, pi), n of them
getSymmetries(b, pi, n) == [k \in 1..n |-> <<b, pi>>]

(***************************************************************************)
(* executeEpisode (Coach.py lines 15-57).                                  *)
(***************************************************************************)
None == "None"

\* a variant that still explores at the move whose number is the threshold
temperature_inclusive(count, threshold) == IF count <= threshold THEN 1 ELSE 0

\* line 43: temp = int(move_count < temperature_threshold)
temperature(count, threshold) == IF count < threshold THEN 1 ELSE 0

\* line 48: [b, current_player, p, None] for every symmetry form
provisional(sym, p) ==
    [k \in 1..Len(sym) |->
        [board |-> sym[k][1], player |-> p, pi |-> sym[k][2], v |-> None]]

\* a variant that never flips the sign of the outcome
label_unsigned(x, outcome, cp) == outcome

\* a variant that flips the sign for the examples of the player to move
label_swapped(x, outcome, cp) == outcome * (IF x.player = cp THEN -1 ELSE 1)

\* line 55: r * ((-1) ** (x[1] != current_player))
label(x, outcome, cp) == outcome * (IF x.player # cp THEN -1 ELSE 1)

\* a variant that returns the examples of the player to move only
labelled_one_side(examples, outcome, cp) ==
    LET mine == SelectSeq(examples, LAMBDA x : x.player = cp)
    IN  [k \in 1..Len(mine) |->
            [board |-> mine[k].board, pi |-> mine[k].pi, v |-> outcome]]

\* lines 54-57: the returned list
labelled(examples, outcome, cp) ==
    [k \in 1..Len(examples) |->
        [board |-> examples[k].board, pi |-> examples[k].pi,
         v |-> label(examples[k], outcome, cp)]]

\* lines 31-39
EpisodeBegin ==
    /\ ep_pc = "idle"
    /\ \E p \in Players : player' = p /\ current_player' = p
    /\ \E n \in 0..MaxSym : sym_count' = n
    /\ \E t \in 0..MaxMoves : temperature_threshold' = t
    /\ board' = getInitBoard
    /\ move_count' = 0
    /\ episode_examples' = <<>>
    /\ ep_pc' = "playing"
    /\ UNCHANGED <<temp, r, returned, last_mover>>

\* lines 40-57: one pass of the loop
EpisodeMove ==
    /\ ep_pc = "playing"
    /\ move_count < MaxMoves
    /\ move_count' = move_count + 1
    /\ temp' = temperature(move_count', temperature_threshold)
    /\ LET canonical_state == getCanonicalForm(board, current_player)
           pi  == [temp |-> temp']
           sym == getSymmetries(canonical_state, pi, sym_count)
       IN  episode_examples' =
              episode_examples \o provisional(sym, current_player)
    /\ \E action \in Actions :
          /\ board' = getNextState(board, current_player, action)[1]
          /\ current_player' = getNextState(board, current_player, action)[2]
    /\ last_mover' = current_player
    /\ r' = getGameEnded(board', current_player')
    /\ IF r' # 0
       THEN /\ returned' = labelled(episode_examples', r', current_player')
            /\ ep_pc' = "returned"
       ELSE /\ returned' = returned
            /\ ep_pc' = "playing"
    /\ UNCHANGED <<player, sym_count, temperature_threshold>>

EpisodeIdle ==
    /\ ep_pc = "idle"
    /\ player = 1
    /\ board = getInitBoard
    /\ current_player = 1
    /\ move_count = 0
    /\ temp = 0
    /\ episode_examples = <<>>
    /\ r = 0
    /\ returned = <<>>
    /\ sym_count = 0
    /\ temperature_threshold = 0
    /\ last_mover = 1

(***************************************************************************)
(* The self-play phase of learn as the thread pool runs it (lines 124-156) *)
(* and the two ways learn is left by an exception.                         *)
(***************************************************************************)
EpisodeIds == 1..MaxEpisodes

Running == {e \in DOMAIN episodes : episodes[e] = "running"}

Pending == {e \in DOMAIN episodes : episodes[e] = "pending"}

PoolIdle ==
    /\ workers = 1
    /\ episodes = <<>>
    /\ estimator = "none"
    /\ seen = <<>>
    /\ collected = 0
    /\ args = <<>>
    /\ training_examples = <<>>

\* a variant that reads the loop variable of learn where the list of packed
\* arguments reads its own
starting_player_of_iteration(e) == IF i % 2 = 0 THEN 1 ELSE -1

\* line 131: 1 if i % 2 == 0 else -1, i being the variable of the list
\* comprehension (line 136), the number of the episode
starting_player(e) == IF e % 2 = 0 THEN 1 ELSE -1

\* a variant that hands the episodes the competitor network self.pnet
Submit_with_pnet ==
    /\ pc = "selfplay"
    /\ workers > 0
    /\ episodes' = [e \in 1..MaxEpisodes |-> "pending"]
    /\ estimator' = "pnet"
    /\ seen' = [e \in 1..MaxEpisodes |-> {}]
    /\ collected' = 0
    /\ args' = [e \in EpisodeIds |-> starting_player(e)]
    /\ training_examples' = <<>>
    /\ pre_train' = [nnet |-> nnet, disk |-> disk]
    /\ pc' = "collect"
    /\ UNCHANGED <<disk, run, window, nnet, pnet, training_examples_history,
                   skip_first_self_play, answer, i, trainExamples, pwins,
                   nwins, draws, loaded, decision, workers>>

\* lines 117-139: the deque, the executor and executor.map(executeEpisode,
\* args), which submits every episode at once; each gets self.nnet;
\* ThreadPoolExecutor takes a max_workers above 0 only
Submit ==
    /\ pc = "selfplay"
    /\ workers > 0
    /\ episodes' = [e \in EpisodeIds |-> "pending"]
    /\ estimator' = "nnet"
    /\ seen' = [e \in EpisodeIds |-> {}]
    /\ collected' = 0
    /\ args' = [e \in EpisodeIds |-> starting_player(e)]
    /\ training_examples' = <<>>
    /\ pre_train' = [nnet |-> nnet, disk |-> disk]
    /\ pc' = "collect"
    /\ UNCHANGED <<disk, run, window, nnet, pnet, training_examples_history,
                   skip_first_self_play, answer, i, trainExamples, pwins,
                   nwins, draws, loaded, decision, workers>>

\* line 124: ThreadPoolExecutor(max_workers=n) raises ValueError when
\* n <= 0, and nothing in learn catches it
PoolRefused ==
    /\ pc = "selfplay"
    /\ workers <= 0
    /\ pc' = "raised"
    /\ UNCHANGED <<disk, run, window, nnet, pnet, training_examples_history,
                   skip_first_self_play, answer, i, trainExamples, pwins,
                   nwins, draws, loaded, pre_train, decision, pool_vars>>

\* the estimator an episode queries: the field of the Coach it was handed
Queried == IF estimator = "pnet" THEN pnet ELSE nnet

\* a variant of the pool that starts an episode whatever the number running
MayStart_unbounded(e) == episodes[e] = "pending"

\* ThreadPoolExecutor(max_workers=self.self_player_workers): the episodes
\* start in the order submitted, at most max_workers of them at a time
MayStart(e) ==
    /\ episodes[e] = "pending"
    /\ \A d \in Pending : e <= d
    /\ Cardinality(Running) < workers

\* a worker thread takes the next episode and enters executeEpisode
WorkerStart ==
    /\ \E e \in DOMAIN episodes :
          /\ MayStart(e)
          /\ episodes' = [episodes EXCEPT ![e] = "running"]
          /\ seen' = [seen EXCEPT ![e] = @ \cup {Queried}]
    /\ UNCHANGED <<coach_vars, workers, estimator, args, collected,
                   training_examples>>

\* a variant in which the worker itself adds its result to the history
WorkerFinish_appending ==
    /\ \E e \in Running : \E outcome \in {"done", "failed"} :
          /\ episodes' = [episodes EXCEPT ![e] = outcome]
          /\ seen' = [seen EXCEPT ![e] = @ \cup {Queried}]
    /\ training_examples_history' =
          Append(training_examples_history, IterationBatch(run, i))
    /\ UNCHANGED <<disk, pc, run, window, nnet, pnet, skip_first_self_play,
                   answer, i, trainExamples, pwins, nwins, draws, loaded,
                   pre_train, decision, workers, estimator, args, collected,
                   training_examples>>

\* executeEpisode returns its examples, or it raises
WorkerFinish ==
    /\ \E e \in Running : \E outcome \in {"done", "failed"} :
          /\ episodes' = [episodes EXCEPT ![e] = outcome]
          /\ seen' = [seen EXCEPT ![e] = @ \cup {Queried}]
    /\ UNCHANGED <<coach_vars, workers, estimator, args, collected,
                   training_examples>>

\* the episode whose result the loop over executor.map waits for
Awaited == collected + 1

\* the list executeEpisode of episode e returns: its k-th example is <<e, k>>
examples_of(e) == [k \in 1..result_len[e] |-> <<e, k>>]

\* deque.append on a deque(maxlen=...): a full deque drops its leftmost item
append_right(d, x, maxlen) ==
    IF maxlen = 0 THEN d
    ELSE IF Len(d) = maxlen THEN Append(Tail(d), x)
    ELSE Append(d, x)

\* line 140: training_examples += examples appends the examples one by one
RECURSIVE extend(_, _, _)
extend(d, examples, maxlen) ==
    IF examples = <<>> THEN d
    ELSE extend(append_right(d, Head(examples), maxlen), Tail(examples), maxlen)

\* a variant of the loop that leaves it as soon as one result has arrived
Collect_first_result ==
    /\ pc = "collect"
    /\ episodes[Awaited] = "done"
    /\ training_examples' = extend(training_examples, examples_of(Awaited),
                                   max_training_examples)
    /\ collected' = collected + 1
    /\ pc' = "append"
    /\ UNCHANGED <<disk, run, window, nnet, pnet, training_examples_history,
                   skip_first_self_play, answer, i, trainExamples, pwins,
                   nwins, draws, loaded, pre_train, decision, workers,
                   episodes, estimator, args, seen>>

\* a variant of the loop that takes the results as the episodes complete
Collect_as_completed ==
    /\ pc = "collect"
    /\ \E e \in DOMAIN episodes :
          /\ episodes[e] = "done"
          /\ training_examples' = extend(training_examples, examples_of(e),
                                         max_training_examples)
    /\ collected' = collected + 1
    /\ pc' = IF collected' = MaxEpisodes THEN "append" ELSE "collect"
    /\ UNCHANGED <<disk, run, window, nnet, pnet, training_examples_history,
                   skip_first_self_play, answer, i, trainExamples, pwins,
                   nwins, draws, loaded, pre_train, decision, workers,
                   episodes, estimator, args, seen>>

\* lines 139-153: the results are taken in the order submitted
Collect ==
    /\ pc = "collect"
    /\ episodes[Awaited] = "done"
    /\ training_examples' = extend(training_examples, examples_of(Awaited),
                                   max_training_examples)
    /\ collected' = collected + 1
    /\ pc' = IF collected' = MaxEpisodes THEN "append" ELSE "collect"
    /\ UNCHANGED <<disk, run, window, nnet, pnet, training_examples_history,
                   skip_first_self_play, answer, i, trainExamples, pwins,
                   nwins, draws, loaded, pre_train, decision, workers,
                   episodes, estimator, args, seen>>

\* a variant that passes over the result of a failed episode
CollectFailure_swallowed ==
    /\ pc = "collect"
    /\ episodes[Awaited] = "failed"
    /\ collected' = collected + 1
    /\ pc' = IF collected' = MaxEpisodes THEN "append" ELSE "collect"
    /\ UNCHANGED <<disk, run, window, nnet, pnet, training_examples_history,
                   skip_first_self_play, answer, i, trainExamples, pwins,
                   nwins, draws, loaded, pre_train, decision, workers,
                   episodes, estimator, args, seen, training_examples>>

\* line 139: the result of a failed episode re-raises its exception in the
\* loop; executor.map cancels the episodes not yet started and the with
\* block waits for the running ones
CollectFailure ==
    /\ pc = "collect"
    /\ episodes[Awaited] = "failed"
    /\ episodes' = [e \in DOMAIN episodes |->
                       IF episodes[e] = "pending" THEN "cancelled"
                                                   ELSE episodes[e]]
    /\ pc' = "shutdown"
    /\ UNCHANGED <<disk, run, window, nnet, pnet, training_examples_history,
                   skip_first_self_play, answer, i, trainExamples, pwins,
                   nwins, draws, loaded, pre_train, decision, workers,
                   estimator, args, seen, collected, training_examples>>

\* a variant in which learn starts the iteration again after a failure
RaiseOut_retry ==
    /\ pc = "shutdown"
    /\ Running = {}
    /\ pc' = "selfplay"
    /\ UNCHANGED <<disk, run, window, nnet, pnet, training_examples_history,
                   skip_first_self_play, answer, i, trainExamples, pwins,
                   nwins, draws, loaded, pre_train, decision, pool_vars>>

\* the exception leaves the with block and learn: nothing in learn catches it
RaiseOut ==
    /\ pc = "shutdown"
    /\ Running = {}
    /\ pc' = "raised"
    /\ UNCHANGED <<disk, run, window, nnet, pnet, training_examples_history,
                   skip_first_self_play, answer, i, trainExamples, pwins,
                   nwins, draws, loaded, pre_train, decision, pool_vars>>

\* line 156: the batch of the iteration joins the history
AppendBatch ==
    /\ pc = "append"
    /\ training_examples_history' =
          Append(training_examples_history, IterationBatch(run, i))
    /\ pc' = "retain"
    /\ UNCHANGED <<disk, run, window, nnet, pnet, skip_first_self_play,
                   answer, i, trainExamples, pwins, nwins, draws, loaded,
                   pre_train, decision, pool_vars>>

\* the positions of the coordinating thread inside the loop of learn
LearnPositions ==
    {"selfplay", "collect", "append", "retain", "save_examples", "flatten",
     "backup", "train", "evaluate", "decide", "save_best_model",
     "save_best_examples"}

\* a variant in which learn saves the current model when it is interrupted
Interrupt_checkpointing ==
    /\ pc \in LearnPositions
    /\ pc' = "interrupted"
    /\ disk' = write(save_checkpoint(disk, <<"best", 0, "pth.tar">>, nnet),
                     examples_file(<<"best", 0, "pth.tar">>),
                     training_examples_history)
    /\ UNCHANGED <<run, window, nnet, pnet, training_examples_history,
                   skip_first_self_play, answer, i, trainExamples, pwins,
                   nwins, draws, loaded, pre_train, decision, pool_vars>>

\* KeyboardInterrupt in learn (lines 98-207 hold no try statement): the
\* exception leaves learn from wherever the coordinating thread stands
Interrupt ==
    /\ pc \in LearnPositions
    /\ pc' = "interrupted"
    /\ UNCHANGED <<disk, run, window, nnet, pnet, training_examples_history,
                   skip_first_self_play, answer, i, trainExamples, pwins,
                   nwins, draws, loaded, pre_train, decision, pool_vars>>

(***************************************************************************)
(* The values the Coach is constructed with (lines 72-85) and the number   *)
(* of examples each episode of an iteration returns.                        *)
(***************************************************************************)
\* the default name, a deque that never fills and one example per episode
DefaultInputs ==
    /\ best_model_name = "best"
    /\ max_training_examples = MaxEpisodes
    /\ result_len = [e \in EpisodeIds |-> 1]

\* MathyTrainer.run has not been entered
TrainerIdle ==
    /\ tr_pc = "idle"
    /\ res_queue = <<>>
    /\ experience = <<>>
    /\ taken = <<>>
    /\ actor_quit = FALSE
    /\ learner_quit = FALSE
    /\ model_saved = FALSE
    /\ joined = {}

(***************************************************************************)
(* MathyTrainer.run (trainer.py lines 40-88).  The actors and the learner  *)
(* are threads of their own: all run sees of them is what arrives on the  *)
(* result queue, an ExperienceFrame or None.                               *)
(***************************************************************************)
\* the k-th ExperienceFrame the actors produce
Frame(k) == [kind |-> "frame", id |-> k]

\* the None an actor puts on the result queue
NoFrame == [kind |-> "None", id |-> 0]

\* all_children (lines 44, 61, 70): the actors, then the learner
Learner == NumActors + 1

all_children == [k \in 1..(NumActors + 1) |-> k]

\* the frames among the items of a sequence, in its order
FramesOf(items) == SelectSeq(items, LAMBDA x : x.kind = "frame")

\* lines 41-72: the queues, the actors and the learner are made and started
TrainerStart ==
    /\ tr_pc = "idle"
    /\ tr_pc' = "get"
    /\ UNCHANGED <<res_queue, experience, taken, actor_quit, learner_quit,
                   model_saved, joined>>

\* an actor puts its next frame, or None, on the result queue
Put ==
    /\ tr_pc \notin {"idle", "done"}
    /\ Len(taken) + Len(res_queue) < MaxPuts
    /\ \E item \in {Frame(Len(FramesOf(taken \o res_queue)) + 1), NoFrame} :
          res_queue' = Append(res_queue, item)
    /\ UNCHANGED <<tr_pc, experience, taken, actor_quit, learner_quit,
                   model_saved, joined>>

\* a variant of the loop that goes on after a None
Consume_past_sentinel ==
    /\ tr_pc = "get"
    /\ res_queue # <<>>
    /\ taken' = Append(taken, Head(res_queue))
    /\ res_queue' = Tail(res_queue)
    /\ IF Head(res_queue) # NoFrame
       THEN experience' = Append(experience, Head(res_queue))
       ELSE experience' = experience
    /\ UNCHANGED <<tr_pc, actor_quit, learner_quit, model_saved, joined>>

\* lines 75-80: one pass of the loop; res_queue.get() blocks on an empty queue
Consume ==
    /\ tr_pc = "get"
    /\ res_queue # <<>>
    /\ taken' = Append(taken, Head(res_queue))
    /\ res_queue' = Tail(res_queue)
    /\ IF Head(res_queue) # NoFrame
       THEN /\ experience' = Append(experience, Head(res_queue))
            /\ tr_pc' = "get"
       ELSE /\ experience' = experience
            /\ tr_pc' = "join"
    /\ UNCHANGED <<actor_quit, learner_quit, model_saved, joined>>

\* line 81: KeyboardInterrupt reaches the main thread while it waits in
\* res_queue.get()
KeyboardInterrupt ==
    /\ tr_pc = "get"
    /\ tr_pc' = "except"
    /\ UNCHANGED <<res_queue, experience, taken, actor_quit, learner_quit,
                   model_saved, joined>>

\* line 83
QuitActors ==
    /\ tr_pc = "except"
    /\ actor_quit' = TRUE
    /\ tr_pc' = "quit_learner"
    /\ UNCHANGED <<res_queue, experience, taken, learner_quit, model_saved,
                   joined>>

\* line 84
QuitLearner ==
    /\ tr_pc = "quit_learner"
    /\ learner_quit' = TRUE
    /\ tr_pc' = "save"
    /\ UNCHANGED <<res_queue, experience, taken, actor_quit, model_saved,
                   joined>>

\* line 85: learner.model.save()
SaveModel ==
    /\ tr_pc = "save"
    /\ model_saved' = TRUE
    /\ tr_pc' = "join"
    /\ UNCHANGED <<res_queue, experience, taken, actor_quit, learner_quit,
                   joined>>

\* line 87: [w.join() for w in all_children], in the order of the list
Join ==
    /\ tr_pc = "join"
    /\ LET w == all_children[Cardinality(joined) + 1]
       IN  joined' = joined \cup {w}
    /\ tr_pc' = IF Cardinality(joined') = Len(all_children) THEN "done"
                                                             ELSE "join"
    /\ UNCHANGED <<res_queue, experience, taken, actor_quit, learner_quit,
                   model_saved>>

(***************************************************************************)
(* MathGame.encode_text, decode_board and stringRepresentation.  A text    *)
(* is the sequence of its characters; a board is Width rows of             *)
(* tokens_count numbers.  The indices of rows and tokens start at 1.       *)
(***************************************************************************)
\* MathGame.tokens (line 24) cut down to the blank used as padding, a
\* letter and the digits "0", "1" and "0": "0" stands twice in the list
tokens == <<" ", "a", "0", "1", "0">>

tokens_count == Len(tokens)

input_characters == {tokens[j] : j \in 1..tokens_count}

\* lines 34-36: a dict made from (char, i) pairs keeps the last i of a char
token_index(ch) ==
    CHOOSE j \in 1..tokens_count :
        /\ tokens[j] = ch
        /\ \A k \in (j + 1)..tokens_count : tokens[k] # ch

\* a variant that takes the last of the largest entries of a row
argmax_last(row) ==
    CHOOSE j \in 1..Len(row) :
        /\ \A k \in 1..Len(row) : row[k] <= row[j]
        /\ \A k \in (j + 1)..Len(row) : row[k] < row[j]

\* numpy.argmax: the first of the largest entries of a row
argmax(row) ==
    CHOOSE j \in 1..Len(row) :
        /\ \A k \in 1..Len(row) : row[k] <= row[j]
        /\ \A k \in 1..(j - 1) : row[k] < row[j]

\* lines 164-168, for a text of at most Width characters: data[i][...] = 1.
\* on a board of zeros
encode_text(chars) ==
    [row \in 1..Width |->
        [j \in 1..tokens_count |->
            IF row <= Len(chars) /\ j = token_index(chars[row]) THEN 1 ELSE 0]]

\* str.strip() on a text whose only white space is the blank
RECURSIVE lstrip(_)
lstrip(chars) ==
    IF chars # <<>> /\ Head(chars) = " " THEN lstrip(Tail(chars)) ELSE chars

RECURSIVE rstrip(_)
rstrip(chars) ==
    IF chars # <<>> /\ chars[Len(chars)] = " "
    THEN rstrip(SubSeq(chars, 1, Len(chars) - 1))
    ELSE chars

strip(chars) == rstrip(lstrip(chars))

\* lines 172-174
decode_board(b) ==
    LET token_indices == [row \in 1..Len(b) |-> argmax(b[row])]
    IN  strip([row \in 1..Len(b) |-> tokens[token_indices[row]]])

\* line 160
stringRepresentation(b) == decode_board(b)

\* the texts over the tokens of up to Width + 1 characters
Texts == UNION {[1..n -> input_characters] : n \in 0..(Width + 1)}

\* a MathGame is about to encode a text
BoardInit ==
    /\ bd_pc = "start"
    /\ text \in Texts
    /\ encoded = <<>>
    /\ decoded = <<>>

\* encode_text on a text the board has room for
Encode ==
    /\ bd_pc = "start"
    /\ Len(text) <= Width
    /\ encoded' = encode_text(text)
    /\ bd_pc' = "encoded"
    /\ UNCHANGED <<text, decoded>>

\* line 167 on a longer text: data[i] with i = Width raises IndexError
EncodeFails ==
    /\ bd_pc = "start"
    /\ Len(text) > Width
    /\ bd_pc' = "IndexError"
    /\ UNCHANGED <<text, encoded, decoded>>

\* decode_board on the board encode_text returned
Decode ==
    /\ bd_pc = "encoded"
    /\ decoded' = decode_board(encoded)
    /\ bd_pc' = "decoded"
    /\ UNCHANGED <<text, encoded>>

\* no text has been handed to MathGame
BoardIdle ==
    /\ bd_pc = "idle"
    /\ text = <<>>
    /\ encoded = <<>>
    /\ decoded = <<>>

\* a fresh Coach whose learn has just been entered
LearnInit ==
    /\ disk = <<>>
    /\ pc = "selfplay"
    /\ run = 1
    /\ window \in 1..MaxWindow
    /\ nnet = FreshParams(1)
    /\ pnet = FreshParams(1)
    /\ training_examples_history = <<>>
    /\ skip_first_self_play = FALSE
    /\ answer = "none"
    /\ i = 1
    /\ trainExamples = {}
    /\ pwins = 0 /\ nwins = 0 /\ draws = 0
    /\ loaded = <<>>
    /\ pre_train = NoSnapshot
    /\ decision = "none"
    /\ EpisodeIdle
    /\ workers \in 1..MaxWorkers
    /\ episodes = <<>>
    /\ estimator = "none"
    /\ seen = <<>>
    /\ collected = 0
    /\ args = <<>>
    /\ training_examples = <<>>
    /\ DefaultInputs
    /\ TrainerIdle
    /\ BoardIdle

Init ==
    /\ CoachInit /\ EpisodeIdle /\ PoolIdle
    /\ DefaultInputs /\ TrainerIdle /\ BoardIdle

Next ==
    \/ (Construct /\ UNCHANGED <<episode_vars, pool_vars, rest_vars>>)
    \/ (Prompt /\ UNCHANGED <<episode_vars, pool_vars, rest_vars>>)
    \/ (LearnBegin /\ UNCHANGED <<episode_vars, pool_vars, rest_vars>>)
    \/ (SelfPlay /\ UNCHANGED <<episode_vars, pool_vars, rest_vars>>)
    \/ (Retain /\ UNCHANGED <<episode_vars, pool_vars, rest_vars>>)
    \/ (SaveExamples /\ UNCHANGED <<episode_vars, pool_vars, rest_vars>>)
    \/ (Flatten /\ UNCHANGED <<episode_vars, pool_vars, rest_vars>>)
    \/ (Backup /\ UNCHANGED <<episode_vars, pool_vars, rest_vars>>)
    \/ (Train /\ UNCHANGED <<episode_vars, pool_vars, rest_vars>>)
    \/ (Evaluate /\ UNCHANGED <<episode_vars, pool_vars, rest_vars>>)
    \/ (Reject /\ UNCHANGED <<episode_vars, pool_vars, rest_vars>>)
    \/ (Accept /\ UNCHANGED <<episode_vars, pool_vars, rest_vars>>)
    \/ (SaveBestModel /\ UNCHANGED <<episode_vars, pool_vars, rest_vars>>)
    \/ (SaveBestExamples /\ UNCHANGED <<episode_vars, pool_vars, rest_vars>>)
    \/ (ProcessEnds /\ UNCHANGED <<episode_vars, pool_vars, rest_vars>>)

Spec == Init /\ [][Next]_vars

\* a text is encoded and the board is decoded
BoardNext ==
    \/ (Encode /\ UNCHANGED not_board_vars)
    \/ (EncodeFails /\ UNCHANGED not_board_vars)
    \/ (Decode /\ UNCHANGED not_board_vars)

\* nothing but a MathGame about to encode a text
TextInit ==
    /\ CoachInit /\ EpisodeIdle /\ PoolIdle /\ DefaultInputs /\ TrainerIdle
    /\ BoardInit

SpecBoard == TextInit /\ [][BoardNext]_vars

\* one call of MathyTrainer.run
TrainerNext ==
    \/ (TrainerStart /\ UNCHANGED not_trainer_vars)
    \/ (Put /\ UNCHANGED not_trainer_vars)
    \/ (Consume /\ UNCHANGED not_trainer_vars)
    \/ (KeyboardInterrupt /\ UNCHANGED not_trainer_vars)
    \/ (QuitActors /\ UNCHANGED not_trainer_vars)
    \/ (QuitLearner /\ UNCHANGED not_trainer_vars)
    \/ (SaveModel /\ UNCHANGED not_trainer_vars)
    \/ (Join /\ UNCHANGED not_trainer_vars)

SpecTrainer == Init /\ [][TrainerNext]_vars

\* the names args["best_model_name"] is given: the default and another one
BestModelNames == {"best", "champion"}

NamesInit ==
    /\ CoachInit /\ EpisodeIdle /\ PoolIdle /\ TrainerIdle /\ BoardIdle
    /\ best_model_name \in BestModelNames
    /\ max_training_examples = MaxEpisodes
    /\ result_len = [e \in EpisodeIds |-> 1]

\* the Coach process, started and restarted, under either name
SpecNames == NamesInit /\ [][Next]_vars

\* one call of executeEpisode on its own
EpisodeNext ==
    \/ (EpisodeBegin /\ UNCHANGED <<coach_vars, pool_vars, rest_vars>>)
    \/ (EpisodeMove /\ UNCHANGED <<coach_vars, pool_vars, rest_vars>>)

SpecEpisode == Init /\ [][EpisodeNext]_vars

\* a pass of the loop on a game of bounded length: whatever the action, the
\* position after the MaxMoves-th move is not open
EpisodeMoveBounded ==
    /\ EpisodeMove
    /\ move_count' = MaxMoves => board'.status # "open"

BoundedEpisodeNext ==
    \/ (EpisodeBegin /\ UNCHANGED <<coach_vars, pool_vars, rest_vars>>)
    \/ (EpisodeMoveBounded /\ UNCHANGED <<coach_vars, pool_vars, rest_vars>>)

\* one call of executeEpisode on a game of bounded length; the thread that
\* runs the call keeps running, so a pass of the loop that can be made is made
SpecBoundedGame ==
    Init /\ [][BoundedEpisodeNext]_vars /\ WF_vars(BoundedEpisodeNext)

\* one run of learn of a fresh Coach, with the thread pool of its self-play
\* phase, failing episodes and an interrupt
LearnNext ==
    \/ (Submit /\ UNCHANGED <<episode_vars, rest_vars>>)
    \/ (WorkerStart /\ UNCHANGED <<episode_vars, rest_vars>>)
    \/ (WorkerFinish /\ UNCHANGED <<episode_vars, rest_vars>>)
    \/ (Collect /\ UNCHANGED <<episode_vars, rest_vars>>)
    \/ (CollectFailure /\ UNCHANGED <<episode_vars, rest_vars>>)
    \/ (RaiseOut /\ UNCHANGED <<episode_vars, rest_vars>>)
    \/ (AppendBatch /\ UNCHANGED <<episode_vars, rest_vars>>)
    \/ (Retain /\ UNCHANGED <<episode_vars, pool_vars, rest_vars>>)
    \/ (SaveExamples /\ UNCHANGED <<episode_vars, pool_vars, rest_vars>>)
    \/ (Flatten /\ UNCHANGED <<episode_vars, pool_vars, rest_vars>>)
    \/ (Backup /\ UNCHANGED <<episode_vars, pool_vars, rest_vars>>)
    \/ (Train /\ UNCHANGED <<episode_vars, pool_vars, rest_vars>>)
    \/ (Evaluate /\ UNCHANGED <<episode_vars, pool_vars, rest_vars>>)
    \/ (Reject /\ UNCHANGED <<episode_vars, pool_vars, rest_vars>>)
    \/ (Accept /\ UNCHANGED <<episode_vars, pool_vars, rest_vars>>)
    \/ (SaveBestModel /\ UNCHANGED <<episode_vars, pool_vars, rest_vars>>)
    \/ (SaveBestExamples /\ UNCHANGED <<episode_vars, pool_vars, rest_vars>>)
    \/ (Interrupt /\ UNCHANGED <<episode_vars, rest_vars>>)

SpecLearn == LearnInit /\ [][LearnNext]_vars

\* the first iteration of a fresh Coach with any max_training_examples up to
\* MaxCap and episodes that return any number of examples up to MaxResult
SelfPlayInit ==
    /\ CoachInit /\ EpisodeIdle /\ TrainerIdle /\ BoardIdle
    /\ workers = MaxWorkers
    /\ episodes = <<>>
    /\ estimator = "none"
    /\ seen = <<>>
    /\ collected = 0
    /\ args = <<>>
    /\ training_examples = <<>>
    /\ best_model_name = "best"
    /\ max_training_examples \in 0..MaxCap
    /\ result_len \in [EpisodeIds -> 0..MaxResult]

\* the self-play phase of an iteration, up to the append of its batch
SelfPlayNext ==
    \/ (Construct /\ UNCHANGED <<episode_vars, pool_vars, rest_vars>>)
    \/ (LearnBegin /\ UNCHANGED <<episode_vars, pool_vars, rest_vars>>)
    \/ (Submit /\ UNCHANGED <<episode_vars, rest_vars>>)
    \/ (WorkerStart /\ UNCHANGED <<episode_vars, rest_vars>>)
    \/ (WorkerFinish /\ UNCHANGED <<episode_vars, rest_vars>>)
    \/ (Collect /\ UNCHANGED <<episode_vars, rest_vars>>)
    \/ (CollectFailure /\ UNCHANGED <<episode_vars, rest_vars>>)
    \/ (RaiseOut /\ UNCHANGED <<episode_vars, rest_vars>>)
    \/ (AppendBatch /\ UNCHANGED <<episode_vars, rest_vars>>)

SpecSelfPlay == SelfPlayInit /\ [][SelfPlayNext]_vars

\* values of a setting that are zero or negative
InvalidValues == {-1, 0}

\* a Coach constructed on an empty checkpoint folder with any window and any
\* worker count: lines 74-85 store what args holds
ConfigInit ==
    /\ CoachInit
    /\ EpisodeIdle /\ PoolIdle /\ DefaultInputs /\ TrainerIdle /\ BoardIdle

ConfigConstruct ==
    /\ pc = "off"
    /\ run = 0
    /\ run' = 1
    /\ window' \in InvalidValues \cup (1..MaxWindow)
    /\ workers' \in InvalidValues \cup (1..MaxWorkers)
    /\ nnet' = FreshParams(1)
    /\ pnet' = FreshParams(1)
    /\ pc' = "constructed"
    /\ UNCHANGED <<disk, training_examples_history, skip_first_self_play,
                   answer, i, trainExamples, pwins, nwins, draws, loaded,
                   pre_train, decision, episodes, estimator, seen, collected,
                   args, training_examples>>

\* the construction of a fresh Coach with any settings, then one run of learn
ConfigNext ==
    \/ (ConfigConstruct /\ UNCHANGED <<episode_vars, rest_vars>>)
    \/ (LearnBegin /\ UNCHANGED <<episode_vars, pool_vars, rest_vars>>)
    \/ (PoolRefused /\ UNCHANGED <<episode_vars, rest_vars>>)
    \/ LearnNext

SpecConfig == ConfigInit /\ [][ConfigNext]_vars

(***************************************************************************)
(* Properties of the accept/reject decision.                               *)
(***************************************************************************)
\* the step in which learn takes its decision (lines 195-207)
DecisionStep == pc = "decide" /\ pc' \notin {"decide", "off"}

\* C1: when the arena reports at least one decisive game, the challenger is
\* accepted if and only if nwins / (pwins + nwins) >= model_win_loss_ratio;
\* draws do not count and the boundary is inclusive: 18 wins and 12 losses
\* are accepted, 10 wins and 10 losses (and 10 draws) are rejected.
C1_AcceptIffWinRatio ==
    [][ /\ (DecisionStep /\ pwins + nwins > 0) =>
              /\ decision' \in {"accept", "reject"}
              /\ (decision' = "accept") <=>
                    (nwins * RatioDen >= RatioNum * (pwins + nwins))
              /\ (decision' = "accept") <=> (pc' = "save_best_model")
        /\ ~rejects(12, 18)
        /\ rejects(10, 10) ]_vars

\* an arena of ArenaGames games ended 2 to 3 for the challenger, exactly at
\* the threshold, and the challenger was accepted
C1_Witness ==
    /\ pc = "save_best_model"
    /\ decision = "accept"
    /\ nwins * RatioDen = RatioNum * (pwins + nwins)
    /\ nwins > 0

\* C2: when every arena match is a draw (no challenger win, no incumbent
\* win) the challenger is rejected: no step from the decision writes a
\* numbered or "best" checkpoint and the decision is "reject".
C2_AllDrawsRejected ==
    [][ (DecisionStep /\ pwins = 0 /\ nwins = 0) =>
            /\ decision' = "reject"
            /\ disk' = disk ]_vars

(***************************************************************************)
(* Properties of executeEpisode.                                           *)
(***************************************************************************)
\* the provisional example the k-th returned example was made from
Tagged(k) == episode_examples[k].player

EpisodeReturned == ep_pc = "returned"

ZeroSumOutcome == getGameEnded(board, 1) = -getGameEnded(board, -1)

\* C4: every returned example is labelled with the terminal value of the
\* game for the player who was to move when the example was recorded
\* (getGameEnded(finalBoard, taggedPlayer), for a zero-sum outcome),
\* whichever player started the episode.
C4_LabelFromTaggedPlayersView ==
    (EpisodeReturned /\ ZeroSumOutcome) =>
        \A k \in 1..Len(returned) :
            returned[k].v = getGameEnded(board, Tagged(k))

\* a won game started by player -1 returned examples of both players
C4_Witness ==
    /\ EpisodeReturned
    /\ ZeroSumOutcome
    /\ player = -1
    /\ \E k \in 1..Len(returned) : Tagged(k) = board.winner
    /\ \E k \in 1..Len(returned) : Tagged(k) = -board.winner

(***************************************************************************)
(* Properties of the retained history.                                     *)
(***************************************************************************)
\* the history is about to be written to a file, or to be flattened
PersistOrFlatten == pc \in {"save_examples", "flatten", "save_best_examples"}

\* C5: whenever the history is persisted or flattened for training it holds
\* at most save_examples_from_last_n_iterations batches, for a fresh Coach
\* and for one resumed from a saved history of any length.
C5_HistoryWithinWindow ==
    PersistOrFlatten => Len(training_examples_history) <= window

\* the iteration of learn whose retention step has already been done
RetainedIteration ==
    CASE pc \in {"save_examples", "flatten", "backup", "train", "evaluate",
                 "decide", "save_best_model", "save_best_examples", "done"}
              -> i
      [] pc = "selfplay" -> i - 1
      [] OTHER -> 0

Min(a, b) == IF a <= b THEN a ELSE b

ModelFiles ==
    {get_best_model_filename, examples_file(get_best_model_filename)}
        \cup {get_checkpoint_filename(k) : k \in 1..MaxIterations}

SameFile(d1, d2, f) ==
    /\ (f \in DOMAIN d1) <=> (f \in DOMAIN d2)
    /\ f \in DOMAIN d1 => d1[f] = d2[f]

\* the decision of the previous iteration has been carried out completely
IterationOver == pc \in {"selfplay", "done"} /\ decision # "none"

\* C7: after a rejection self.nnet holds the parameters it had right before
\* nnet.train of that iteration, and the "best" model file, the "best"
\* history file and the numbered model checkpoints are as the iteration
\* found them.
C7_RejectRestoresIncumbent ==
    (IterationOver /\ decision = "reject") =>
        /\ nnet = pre_train.nnet
        /\ \A f \in ModelFiles : SameFile(disk, pre_train.disk, f)

\* a challenger trained from a resumed "best" model was rejected
C7_Witness ==
    /\ IterationOver
    /\ decision = "reject"
    /\ exists(disk, get_best_model_filename)
    /\ nnet # FreshParams(run)

\* C8: after an acceptance in iteration k the retrained parameters stay in
\* self.nnet for the next iteration, and before that iteration starts they
\* are in the numbered checkpoint of iteration k and in the "best"
\* checkpoint, whose history file holds the current retained history.
C8_AcceptKeepsAndCheckpoints ==
    (IterationOver /\ decision = "accept") =>
        /\ nnet = TrainedParams(run, RetainedIteration)
        /\ exists(disk, get_checkpoint_filename(RetainedIteration))
        /\ disk[get_checkpoint_filename(RetainedIteration)] = nnet
        /\ exists(disk, <<"best", 0, "pth.tar">>)
        /\ disk[<<"best", 0, "pth.tar">>] = nnet
        /\ exists(disk, <<"best", 0, "pth.tar.examples">>)
        /\ disk[<<"best", 0, "pth.tar.examples">>] = training_examples_history

\* the second iteration is about to start after the first one was accepted
C8_Witness ==
    /\ pc = "selfplay"
    /\ i > 1
    /\ decision = "accept"

(***************************************************************************)
(* Properties of the resume logic.                                         *)
(***************************************************************************)
\* C9: a Coach constructed with a "best" snapshot and its history file
\* (skip_first_self_play is set) does not run self-play in the first
\* iteration of learn: the first retrain sees the loaded history only.
C9_ResumeSkipsFirstSelfPlay ==
    (skip_first_self_play /\ i = 1 /\
     pc \in {"retain", "save_examples", "flatten", "backup", "train"}) =>
        \A j \in 1..Len(training_examples_history) :
            training_examples_history[j].run # run

BestSnapshotOnly ==
    /\ can_load_model(disk, get_best_model_filename)
    /\ ~exists(disk, examples_file(get_best_model_filename))

\* C10: with a "best" snapshot and no history file the constructor stops at
\* the prompt; from there the process exits unless the reply is exactly
\* "y", and on "y" it goes on with an empty history and with
\* skip_first_self_play false; an exited process runs nothing more.
C10_MissingHistoryNeedsOptIn ==
    [][ /\ (pc = "off" /\ pc' # "off" /\ BestSnapshotOnly) => pc' = "prompt"
        /\ (pc = "prompt" /\ pc' \notin {"prompt", "off"}) =>
              \/ /\ answer' = "y"
                 /\ pc' = "constructed"
                 /\ training_examples_history' = <<>>
                 /\ skip_first_self_play' = FALSE
              \/ /\ answer' # "y"
                 /\ pc' = "exited"
        /\ (pc = "exited") => pc' \in {"exited", "off"} ]_vars

\* the operator answered "y" and learn started from an empty history
C10_Witness ==
    /\ answer = "y"
    /\ pc = "selfplay"
    /\ i = 1
    /\ training_examples_history = <<>>

(***************************************************************************)
(* Properties of the phases of learn and of its thread pool.               *)
(***************************************************************************)
\* the phase of the iteration a position of learn belongs to:
\* 1 SelfPlay (with the retention of its batch), 2 Retrain, 3 Evaluate,
\* 4 Accept-or-Reject, 0 outside the loop
Phase(p) ==
    CASE p \in {"selfplay", "collect", "append", "retain", "save_examples",
                "flatten"} -> 1
      [] p \in {"backup", "train"} -> 2
      [] p = "evaluate" -> 3
      [] p \in {"decide", "save_best_model", "save_best_examples"} -> 4
      [] OTHER -> 0

AllEpisodesReturned ==
    /\ collected = MaxEpisodes
    /\ \A e \in DOMAIN episodes : episodes[e] = "done"

\* C11: within an iteration the phases run in the order SelfPlay, Retrain,
\* Evaluate, Accept-or-Reject, each entered only from the one before it and
\* Retrain only once every episode has returned; a new iteration starts only
\* from the decision, and learn is done after exactly training_iterations
\* iterations.
C11_PhasesSerialAndCounted ==
    [][ /\ (Phase(pc) > 0 /\ Phase(pc') > 0 /\ Phase(pc') # Phase(pc)) =>
              \/ Phase(pc') = Phase(pc) + 1
              \/ Phase(pc) = 4 /\ Phase(pc') = 1
        /\ (Phase(pc) = 1 /\ Phase(pc') = 2) => AllEpisodesReturned
        /\ (i' # i) => (i' = i + 1 /\ Phase(pc) = 4 /\ pc' = "selfplay")
        /\ (pc' = "selfplay" /\ pc # "selfplay") => i' = i + 1
        /\ (pc' = "done" /\ pc # "done") =>
              (Phase(pc) = 4 /\ i = MaxIterations /\ i' = i) ]_vars

\* learn has returned after its last iteration
C11_Witness ==
    /\ pc = "done"
    /\ i = MaxIterations
    /\ decision # "none"

\* C12: the parameters of self.nnet change only when no episode is pending
\* or running, and every episode of an iteration has queried one and the
\* same parameters from its start to its end: those self.nnet held when the
\* episodes were submitted.
C12_EpisodesSeeFrozenEstimator ==
    [][ /\ (nnet' # nnet) => (Running = {} /\ Pending = {})
        /\ \A e \in DOMAIN seen' : seen'[e] \subseteq {pre_train'.nnet}
        /\ (pc' = "append") =>
              \A e \in DOMAIN seen' : seen'[e] = {nnet'} ]_vars

\* the episodes of the second iteration all returned, having queried the
\* parameters accepted in the first
C12_Witness ==
    /\ pc = "append"
    /\ i > 1
    /\ nnet = TrainedParams(run, 1)
    /\ \A e \in DOMAIN seen : seen[e] = {nnet}

FailedEpisodes == {e \in DOMAIN episodes : episodes[e] = "failed"}

ExamplesFiles == {f \in DOMAIN disk : f[3] = "pth.tar.examples"}

InHistory(batch, history) == \E j \in 1..Len(history) : history[j] = batch

\* C13: once an episode of the iteration has failed, the batch of that
\* iteration is never appended to training_examples_history, never written
\* to a file and never handed to training, whatever the other episodes
\* returned.
C13_FailedEpisodeAbortsBatch ==
    (FailedEpisodes # {}) =>
        /\ ~InHistory(IterationBatch(run, i), training_examples_history)
        /\ \A f \in ExamplesFiles : ~InHistory(IterationBatch(run, i), disk[f])
        /\ IterationBatch(run, i) \notin trainExamples
        /\ Phase(pc) <= 1

\* learn was left by the exception of a failed episode after the results of
\* other episodes had been collected
C13_Witness ==
    /\ pc = "raised"
    /\ collected > 0
    /\ FailedEpisodes # {}

\* C14 as stated: when an episode has failed and the pool has wound down,
\* learn goes back to the start of the SelfPlay phase of the same iteration.
C14_FailedIterationRetried ==
    [][ (pc = "shutdown" /\ pc' # "shutdown") =>
            (pc' = "selfplay" /\ i' = i) ]_vars

\* C14 amended: when an episode has failed the iteration is aborted and the
\* exception ends learn: the history is left as it was, no position of learn
\* is entered again, and an iteration only ever starts from the decision of
\* the one before it.
C14_FailureEndsLearn ==
    [][ /\ (pc = "shutdown" /\ pc' # "shutdown") =>
              /\ pc' = "raised"
              /\ i' = i
              /\ training_examples_history' = training_examples_history
        /\ (pc = "raised") => (pc' = "raised" /\ disk' = disk)
        /\ (pc' = "selfplay" /\ pc # "selfplay") => Phase(pc) = 4 ]_vars

\* learn was left by the exception; an episode never started was cancelled
C14_Witness ==
    /\ pc = "raised"
    /\ \E e \in DOMAIN episodes : episodes[e] = "cancelled"

InterruptStep == pc # "interrupted" /\ pc' = "interrupted"

\* C15 as stated: when learn is interrupted, the current model and the
\* retained history are in the "best" checkpoint when learn is left.
C15_InterruptCheckpoints ==
    [][ InterruptStep =>
            /\ exists(disk', <<"best", 0, "pth.tar">>)
            /\ exists(disk', <<"best", 0, "pth.tar.examples">>)
            /\ disk'[<<"best", 0, "pth.tar.examples">>] =
                   training_examples_history' ]_vars

\* C15 amended: an interrupt ends learn without writing anything: the files
\* are exactly those written before the interrupt arrived, and nothing is
\* written afterwards.
C15_InterruptWritesNothing ==
    [][ /\ InterruptStep => disk' = disk
        /\ (pc = "interrupted") => (pc' = "interrupted" /\ disk' = disk) ]_vars

\* learn was interrupted while its history held a batch no file holds
C15_Witness ==
    /\ pc = "interrupted"
    /\ training_examples_history # <<>>
    /\ ExamplesFiles = {}

(***************************************************************************)
(* Properties of what is on disk.                                          *)
(***************************************************************************)
ParameterFiles == {f \in DOMAIN disk : f[3] = "pth.tar"}

PersistedIncumbent == \E f \in ParameterFiles : disk[f] = nnet

PersistedHistory ==
    \E f \in ExamplesFiles : disk[f] = training_examples_history

\* C16 as stated: at the start of every iteration a file holds the
\* parameters of self.nnet and a file holds training_examples_history.
C16_DurableAtIterationStart ==
    (pc = "selfplay") => (PersistedIncumbent /\ PersistedHistory)

\* C16 amended: the same, at the start of every iteration but the first
\* iteration of a run that loaded no history.
C16_DurableAfterFirstIteration ==
    (pc = "selfplay" /\ (i > 1 \/ skip_first_self_play)) =>
        (PersistedIncumbent /\ PersistedHistory)

\* an iteration starts after the challenger of the one before was rejected
C16_Witness ==
    /\ pc = "selfplay"
    /\ i > 1
    /\ decision = "reject"

\* C17: the snapshot and the history the constructor loads were written by
\* the same acceptance step: the snapshot holds the parameters trained in
\* the iteration whose batch is the newest of the history.
C17_ResumesFromConsistentPair ==
    (pc = "constructed" /\ skip_first_self_play) =>
        /\ training_examples_history # <<>>
        /\ LET newest ==
                   training_examples_history[Len(training_examples_history)]
           IN  nnet = TrainedParams(newest.run, newest.iter)

\* C18 as stated: nnet.train does not change the parameters of the estimator
\* the episodes of the iteration queried.
C18_TrainSparesSelfPlayInstance ==
    [][ (pc = "train" /\ pc' = "evaluate") =>
            /\ (estimator = "nnet") => nnet' = nnet
            /\ (estimator = "pnet") => pnet' = pnet ]_vars

\* C18 amended: nnet.train changes the parameters of self.nnet, the very
\* estimator the episodes queried; the parameters it held before are kept
\* in self.pnet and in temp.pth.tar, which training leaves alone.
C18_TrainMutatesSelfPlayInstance ==
    [][ (pc = "train" /\ pc' = "evaluate") =>
            /\ estimator = "nnet"
            /\ \A e \in DOMAIN seen : seen[e] = {nnet}
            /\ nnet' # nnet
            /\ pnet = nnet /\ pnet' = pnet
            /\ disk[temp_file_path] = nnet /\ disk' = disk ]_vars

\* the estimator the episodes queried has been trained; pnet holds the old
C18_Witness ==
    /\ pc = "evaluate"
    /\ estimator = "nnet"
    /\ nnet # pnet
    /\ \A e \in DOMAIN seen : seen[e] = {pnet}

\* C19: before train starts the parameters of the incumbent are in
\* temp.pth.tar and the training starts from them; during the whole Evaluate
\* phase pnet holds exactly those parameters.
C19_BackupBeforeTrain ==
    /\ (pc = "train") =>
          /\ exists(disk, temp_file_path)
          /\ disk[temp_file_path] = nnet
          /\ pnet = nnet
    /\ (pc \in {"evaluate", "decide"}) =>
          /\ disk[temp_file_path] = pre_train.nnet
          /\ pnet = pre_train.nnet
          /\ nnet = TrainedParams(run, i)
          /\ nnet # pnet

\* the arena has played a challenger against an incumbent that was itself
\* accepted in an earlier iteration
C19_Witness ==
    /\ pc = "decide"
    /\ i > 1
    /\ pnet = TrainedParams(run, i - 1)

\* C20: never more than self_player_workers episodes run at the same time,
\* and when the SelfPlay phase of an iteration is over exactly
\* self_play_iterations episodes have been started and have returned.
C20_PoolBoundedAndComplete ==
    /\ Cardinality(Running) <= workers
    /\ (pc = "append" \/ Phase(pc) > 1 \/ pc = "done") =>
          /\ DOMAIN episodes = 1..MaxEpisodes
          /\ AllEpisodesReturned
          /\ Len(training_examples) = MaxEpisodes

\* every worker is busy while an episode still waits for one
C20_Witness ==
    /\ Cardinality(Running) = workers
    /\ Pending # {}
    /\ collected > 0

(***************************************************************************)
(* Properties of the history and of the batch of an iteration.             *)
(***************************************************************************)
\* a step of a worker thread: an episode starts, returns or raises
WorkerStep == \E e \in DOMAIN episodes :
    /\ e \in DOMAIN episodes'
    /\ \/ episodes[e] = "pending" /\ episodes'[e] = "running"
       \/ episodes[e] = "running" /\ episodes'[e] \in {"done", "failed"}

\* the length of the history of a fresh Coach when iteration i begins
RetainedBefore == Min(i - 1, window)

\* C21: no step of a self-play worker changes training_examples_history;
\* the history changes only by the coordinating thread's append of the
\* iteration's batch, made once every episode of the iteration has
\* returned, and by the eviction that follows it, so that an iteration adds
\* exactly one batch and removes at most one.
C21_OnlyCoordinatorWritesHistory ==
    /\ [][ /\ WorkerStep => training_examples_history' = training_examples_history
           /\ (training_examples_history' # training_examples_history) =>
                 \/ /\ pc = "append"
                    /\ AllEpisodesReturned
                    /\ Running = {} /\ Pending = {}
                    /\ training_examples_history' =
                          Append(training_examples_history, IterationBatch(run, i))
                 \/ /\ pc = "retain"
                    /\ training_examples_history' = Tail(training_examples_history) ]_vars
    /\ [](/\ pc \in {"selfplay", "collect", "append", "shutdown", "raised"} =>
                Len(training_examples_history) = RetainedBefore
          /\ pc = "retain" =>
                Len(training_examples_history) = RetainedBefore + 1
          /\ (Phase(pc) > 0 /\ pc \notin {"selfplay", "collect", "append", "retain"}) =>
                /\ Len(training_examples_history) = Min(i, window)
                /\ training_examples_history[Len(training_examples_history)] =
                      IterationBatch(run, i))

\* the second iteration's batch was appended after all its episodes returned
\* and the first iteration's batch was evicted
C21_Witness ==
    /\ pc = "save_examples"
    /\ i = 2
    /\ window = 1
    /\ AllEpisodesReturned
    /\ training_examples_history = <<IterationBatch(run, 2)>>

\* how many of the submitted episodes player p starts
StartedBy(p) == Cardinality({e \in DOMAIN args : args[e] = p})

C23_EpisodeTerminates ==
    /\ (ep_pc = "playing") ~> (ep_pc = "returned")
    /\ [](ep_pc \in {"playing", "returned"} =>
             /\ board.moves = move_count
             /\ Len(episode_examples) = move_count * sym_count
             /\ (ep_pc = "playing") <=> (getGameEnded(board, current_player) = 0)
             /\ (ep_pc = "returned") => (r # 0 /\ board.status # "open"))
    /\ [][ /\ (ep_pc = "playing" /\ move_count' # move_count) =>
                 /\ move_count' = move_count + 1
                 /\ board'.moves = board.moves + 1
                 /\ current_player' = -current_player
                 /\ (ep_pc' = "returned") <=>
                       (getGameEnded(board', current_player') # 0)
           /\ (ep_pc = "returned") => UNCHANGED episode_vars ]_vars

\* an episode returned after the last move the game allows
C23_Witness ==
    /\ ep_pc = "returned"
    /\ move_count = MaxMoves
    /\ board.moves = MaxMoves
    /\ r # 0

(***************************************************************************)
(* Settings the constructor is handed.                                     *)
(***************************************************************************)
InvalidConfig == window \in InvalidValues \/ workers \in InvalidValues

Constructed == pc \notin {"off", "prompt", "exited"}

MoveStep == ep_pc = "playing" /\ move_count' = move_count + 1

\* C25: with the moves counted from 1, the search of move k runs with
\* temperature 1 if and only if k < temperature_threshold and with
\* temperature 0 otherwise; after a move searched with temperature 0 every
\* later move of the episode is searched with temperature 0.
C25_TemperatureByMoveCount ==
    [][ MoveStep =>
          /\ temp' \in {0, 1}
          /\ (temp' = 1) <=> (move_count' < temperature_threshold)
          /\ (move_count = 0) => (move_count' = 1)
          /\ (move_count >= 1 /\ temp = 0) => temp' = 0
          /\ \A x \in {episode_examples'[k] : k \in
                           (Len(episode_examples) + 1)..Len(episode_examples')} :
                x.pi.temp = temp' ]_vars

\* the first move was searched with temperature 1, the second and the third
\* with temperature 0
C25_Witness ==
    /\ temperature_threshold = 2
    /\ move_count = 3
    /\ temp = 0
    /\ sym_count > 0
    /\ episode_examples[1].pi.temp = 1
    /\ episode_examples[Len(episode_examples)].pi.temp = 0

\* C26: every example executeEpisode returns carries a set outcome (the
\* non-zero number r or -r), never the unset value every provisional
\* example holds; the returned list holds one
\* labelled example per provisional example, in the order recorded (same
\* board and same distribution at the same place), so its length is the
\* number of symmetry forms recorded over the moves played.
C26_ReturnedListFullyLabelled ==
    EpisodeReturned =>
        /\ Len(returned) = Len(episode_examples)
        /\ Len(returned) = move_count * sym_count
        /\ \A k \in 1..Len(returned) :
              /\ r # 0
              /\ returned[k].v \in {r, -r}
              /\ episode_examples[k].v = None
              /\ returned[k].board = episode_examples[k].board
              /\ returned[k].pi = episode_examples[k].pi
              /\ returned[k].board.moves = (k - 1) \div sym_count

\* an episode of three moves returned two examples for each of them
C26_Witness ==
    /\ EpisodeReturned
    /\ move_count = 3
    /\ sym_count = 2
    /\ Len(returned) = 6

(***************************************************************************)
(* The batch of an iteration.                                              *)
(***************************************************************************)
\* the examples of the episodes 1..n, one episode after the other
RECURSIVE Merged(_)
Merged(n) == IF n = 0 THEN <<>> ELSE Merged(n - 1) \o examples_of(n)

\* the last n items of a sequence
LastOf(seq, n) ==
    IF Len(seq) <= n THEN seq ELSE SubSeq(seq, Len(seq) - n + 1, Len(seq))

\* C27: the deque of an iteration holds the examples of the episodes
\* collected so far merged in the order the episodes were submitted,
\* whatever the order they completed in, cut to the last
\* max_training_examples of them: examples of the earliest episodes are
\* dropped without notice; the batch is appended once the examples of all
\* the episodes are merged.
C27_BatchIsCappedMergeInSubmissionOrder ==
    (episodes # <<>>) =>
        /\ training_examples =
              LastOf(Merged(collected), max_training_examples)
        /\ Len(training_examples) <= max_training_examples
        /\ (pc = "retain") =>
              /\ collected = MaxEpisodes
              /\ training_examples =
                    LastOf(Merged(MaxEpisodes), max_training_examples)
              /\ training_examples_history = <<IterationBatch(run, i)>>

\* the batch was appended without the examples of the first episode and
\* with a part of those of the second
C27_Witness ==
    /\ pc = "retain"
    /\ result_len[1] > 0
    /\ max_training_examples > 0
    /\ Len(training_examples) = max_training_examples
    /\ training_examples[1] = <<2, 2>>
    /\ training_examples[Len(training_examples)] = <<MaxEpisodes, result_len[MaxEpisodes]>>

(***************************************************************************)
(* The files of an accepted model and the files the constructor reads.     *)
(***************************************************************************)
\* the two files save_current_model("best") writes
AcceptedFiles == {<<"best", 0, "pth.tar">>, <<"best", 0, "pth.tar.examples">>}

\* C28: whatever best_model_name is configured, the snapshot and history
\* files an acceptance writes are the files the constructor looks for, and
\* a Coach constructed where an earlier run left both files of an accepted
\* model holds that model and that history.
C28_AcceptanceWritesWhatConstructorReads ==
    /\ (pc = "save_best_examples") =>
          can_load_model(disk, get_best_model_filename)
    /\ (pc = "constructed" /\ AcceptedFiles \subseteq DOMAIN disk) =>
          /\ nnet = disk[<<"best", 0, "pth.tar">>]
          /\ training_examples_history = disk[<<"best", 0, "pth.tar.examples">>]

(***************************************************************************)
(* MathyTrainer.run.                                                       *)
(***************************************************************************)
\* run left its loop because of a KeyboardInterrupt
LeftByInterrupt ==
    /\ tr_pc \in {"except", "quit_learner", "save", "join", "done"}
    /\ (taken = <<>> \/ taken[Len(taken)] # NoFrame)

\* run left its loop because it took a None from the queue
LeftBySentinel == taken # <<>> /\ taken[Len(taken)] = NoFrame

Blanks(n) == [k \in 1..n |-> " "]

\* t is s without its leading and trailing blanks
Trimmed(s, t) ==
    /\ \E a \in 0..Len(s) : \E b \in 0..Len(s) :
          s = Blanks(a) \o t \o Blanks(b)
    /\ t # <<>> => (t[1] # " " /\ t[Len(t)] # " ")

\* the boards of the texts the board has room for
EncodableBoards == {encode_text(t) : t \in {u \in Texts : Len(u) <= Width}}

\* C30: for a text s over the tokens of at most Width characters,
\* decode_board(encode_text(s)) is s without its leading and trailing
\* blanks; the string representations of two boards are equal exactly when
\* their decoded texts are equal; a longer text is not encoded: encode_text
\* raises.
C30_DecodeInvertsEncodeUpToBlanks ==
    /\ (bd_pc = "decoded") =>
          /\ Len(text) <= Width
          /\ Len(encoded) = Width
          /\ Trimmed(text, decoded)
          /\ \A b \in EncodableBoards :
                (stringRepresentation(b) = stringRepresentation(encoded))
                    <=> (decode_board(b) = decoded)
    /\ (Len(text) > Width) => (bd_pc \in {"start", "IndexError"} /\ encoded = <<>>)
    /\ (bd_pc = "IndexError") => Len(text) > Width

\* a text with a blank before and a blank after the digit that stands
\* twice among the tokens was encoded and decoded
C30_Witness ==
    /\ bd_pc = "decoded"
    /\ text = <<" ", "0", " ">>
    /\ decoded = <<"0">>
    /\ encoded[2][5] = 1

====
